---- MODULE Spec2Model ----
(***************************************************************************)
(* A model of minformer/model.py: the KV cache and its update in           *)
(* forward_layer / forward, the attention mask, the learning-rate          *)
(* schedule and sample_from_prompt.                                        *)
(*                                                                         *)
(* Tensors are modelled by what identifies their content.  A key or value  *)
(* entry of the cache is a record naming the layer, the token it was       *)
(* projected from, the rotary table row applied to it (keys only), the     *)
(* forward call and in-chunk index that produced it, and whether that      *)
(* position carried a non-zero segment id.  The all-zero cache entry is    *)
(* ZeroKV.  Arrays are functions over 0..n-1, as in the source.            *)
(***************************************************************************)
EXTENDS Integers, FiniteSets, Sequences, TLC

VARIABLES cfg, cache, passed, last, calls, inp, outp

vars == <<cfg, cache, passed, last, calls, inp, outp>>

(***************************************************************************)
(* Bounds of the model.                                                    *)
(***************************************************************************)
MaxSeqLen == 4
MaxChunk == 2
MaxCalls == 2
MaxLayers == 2
MaxBatch == 2
VocabSize == 2
MaxSteps == 1
MaxMaskLen == 2
MaxTotalSteps == 8

Vocab == 0..(VocabSize - 1)
SegIds == {0, 1}

(***************************************************************************)
(* Config (the fields the cache logic reads) and the KV cache.             *)
(***************************************************************************)
Config ==
  [max_seq_len : 2..MaxSeqLen, causal : BOOLEAN, use_attn_kernel : BOOLEAN,
   num_layers : 1..MaxLayers, batch : 1..MaxBatch]

Rows(c) == 0..(c.batch - 1)
Times(c) == 0..(c.max_seq_len - 1)
Layers(c) == 0..(c.num_layers - 1)

NoRot == -1

ZeroKV == [layer |-> -1, tok |-> -1, rot |-> NoRot, call |-> -1, idx |-> -1, valid |-> FALSE]

\* KVCache.init: zeros for every layer's k and v, zeros for lengths
KVCacheInit(c) ==
  [k |-> [l \in Layers(c) |-> [b \in Rows(c) |-> [t \in Times(c) |-> ZeroKV]]],
   v |-> [l \in Layers(c) |-> [b \in Rows(c) |-> [t \in Times(c) |-> ZeroKV]]],
   lengths |-> [b \in Rows(c) |-> 0]]

(***************************************************************************)
(* Array helpers.                                                          *)
(***************************************************************************)
Size(a) == Cardinality(DOMAIN a)

\* the element of a singleton set. Only({e(r) : r \in {v}}) is e with r bound to
\* the value of v, evaluated once, as Python evaluates an assignment's right-hand
\* side once before the statements that read it
Only(S) == CHOOSE y \in S : TRUE

Clamp(x, lo, hi) == IF x < lo THEN lo ELSE IF x > hi THEN hi ELSE x

\* jax.lax.dynamic_slice_in_dim: the start index is clamped so that the slice fits
slice_at(table, index, length) ==
  LET s == Clamp(index, 0, Size(table) - length)
  IN [i \in 0..(length - 1) |-> table[s + i]]

\* vmap of slice_at over the batch of start indices
slices_at(table, indices, length) ==
  [b \in DOMAIN indices |-> slice_at(table, indices[b], length)]

\* jax.lax.dynamic_update_slice_in_dim: the start index is clamped so that the update fits
dynamic_update_slice_in_dim(original, update, at) ==
  LET s == Clamp(at, 0, Size(original) - Size(update))
  IN [t \in DOMAIN original |->
        IF s <= t /\ t < s + Size(update) THEN update[t - s] ELSE original[t]]

\* _generate_fixed_pos_embedding: one table row per position 0..length-1 (rows are
\* pairwise distinct, so a row is named by its position)
generate_fixed_pos_embedding(length) == [p \in 0..(length - 1) |-> p]

\* jnp.sum(segment_ids != 0, axis=-1) for one row
incremental_positions(seg_row) == Cardinality({i \in DOMAIN seg_row : seg_row[i] # 0})

\* a variant that leaves the masked positions as they are
MaskKVKeep(row, k_segment_ids) == row

\* k * k_segment_ids[:, None, :, None] for one row
MaskKV(row, k_segment_ids) ==
  [t \in DOMAIN row |-> IF k_segment_ids[t] = 1 THEN row[t] ELSE ZeroKV]

(***************************************************************************)
(* Attention mask.                                                         *)
(***************************************************************************)
\* a variant that joins the segment and causal masks with logical_or
make_attention_mask_or(q_len, k_len, q_segment_ids, k_segment_ids, q_offset, causal) ==
  [b \in DOMAIN q_segment_ids |->
    [i \in 0..(q_len - 1) |->
      [j \in 0..(k_len - 1) |->
        LET segment_mask == q_segment_ids[b][i] = k_segment_ids[b][j]
            causal_mask == i + q_offset[b] >= j
        IN IF causal THEN segment_mask \/ causal_mask ELSE segment_mask]]]

\* make_attention_mask: [b][i][j] is TRUE where query i of row b may attend to key j
make_attention_mask(q_len, k_len, q_segment_ids, k_segment_ids, q_offset, causal) ==
  [b \in DOMAIN q_segment_ids |->
    [i \in 0..(q_len - 1) |->
      [j \in 0..(k_len - 1) |->
        LET segment_mask == q_segment_ids[b][i] = k_segment_ids[b][j]
            causal_mask == i + q_offset[b] >= j
        IN IF causal THEN segment_mask /\ causal_mask ELSE segment_mask]]]

(***************************************************************************)
(* forward_layer.                                                          *)
(***************************************************************************)
\* the key / value projected from each chunk position (k after apply_rotary_embedding,
\* v without a rotation)
NewK(x, segment_ids, sin, idx, call) ==
  [b \in DOMAIN x |-> [i \in DOMAIN x[b] |->
    [layer |-> idx, tok |-> x[b][i], rot |-> sin[b][i], call |-> call, idx |-> i,
     valid |-> segment_ids[b][i] # 0]]]

NewV(x, segment_ids, idx, call) ==
  [b \in DOMAIN x |-> [i \in DOMAIN x[b] |->
    [layer |-> idx, tok |-> x[b][i], rot |-> NoRot, call |-> call, idx |-> i,
     valid |-> segment_ids[b][i] # 0]]]

\* where the chunk of row b is written: cache.lengths[b], each row at its own length
UpdateAt(kv_cache, b) == kv_cache.lengths[b]

\* a variant that forgets the positions written by this call
KSegmentIdsPriorOnly(kv_cache, segment_ids, c) ==
  [b \in DOMAIN segment_ids |-> [t \in Times(c) |->
    IF t < kv_cache.lengths[b] THEN 1 ELSE 0]]

\* time_indices < (cache.lengths + incremental_positions)[:, None]
KSegmentIds(kv_cache, segment_ids, c) ==
  [b \in DOMAIN segment_ids |-> [t \in Times(c) |->
    IF t < kv_cache.lengths[b] + incremental_positions(segment_ids[b]) THEN 1 ELSE 0]]

\* jnp.where(segment_ids != 0, 1, 0)
QSegmentIds(segment_ids) ==
  [b \in DOMAIN segment_ids |-> [i \in DOMAIN segment_ids[b] |->
    IF segment_ids[b][i] # 0 THEN 1 ELSE 0]]

\* the cache_update scope of forward_layer when a cache is given
CacheUpdate(x, segment_ids, sin, idx, c, kv_cache, call) ==
  LET k_segment_ids == KSegmentIds(kv_cache, segment_ids, c)
      k_new == NewK(x, segment_ids, sin, idx, call)
      v_new == NewV(x, segment_ids, idx, call)
  IN [k |-> [b \in DOMAIN x |->
               MaskKV(dynamic_update_slice_in_dim(kv_cache.k[idx][b], k_new[b], UpdateAt(kv_cache, b)),
                      k_segment_ids[b])],
      v |-> [b \in DOMAIN x |->
               MaskKV(dynamic_update_slice_in_dim(kv_cache.v[idx][b], v_new[b], UpdateAt(kv_cache, b)),
                      k_segment_ids[b])],
      q_segment_ids |-> QSegmentIds(segment_ids),
      k_segment_ids |-> k_segment_ids,
      q_offset |-> kv_cache.lengths]

\* the cache_update scope of forward_layer when no cache is given
NoCacheUpdate(x, segment_ids, sin, idx, call) ==
  [k |-> NewK(x, segment_ids, sin, idx, call),
   v |-> NewV(x, segment_ids, idx, call),
   q_segment_ids |-> segment_ids,
   k_segment_ids |-> segment_ids,
   q_offset |-> [b \in DOMAIN x |-> 0]]

\* a variant without the check for a cache on the kernel path
KernelNeverRaises(c, hasCache) == FALSE

\* the attention scope: the kernel path raises ValueError when a cache is given
KernelRaises(c, hasCache) == c.use_attn_kernel /\ hasCache

\* forward_layer: raised, or the layer's k and v and the attention mask it used
forward_layer(x, segment_ids, sin, idx, c, kv_cache, hasCache, call) ==
  Only({
    [raised |-> KernelRaises(c, hasCache),
     k |-> u.k,
     v |-> u.v,
     mask |-> make_attention_mask(Size(x[0]), Size(u.k[0]), u.q_segment_ids,
                                  u.k_segment_ids, u.q_offset,
                                  IF c.use_attn_kernel THEN TRUE ELSE c.causal)] :
    u \in {IF hasCache THEN CacheUpdate(x, segment_ids, sin, idx, c, kv_cache, call)
           ELSE NoCacheUpdate(x, segment_ids, sin, idx, call)}})

(***************************************************************************)
(* forward.                                                                *)
(***************************************************************************)
\* what the attention of a layer computes for query i of row b: the query's token and
\* rotary row, and the keys and values the mask lets it attend to, each at its index
AttnView(x, sin, r) ==
  [b \in DOMAIN x |-> [i \in DOMAIN x[b] |->
    [tok |-> x[b][i], rot |-> sin[b][i],
     keys |-> {<<j, r.k[b][j].tok, r.k[b][j].rot, r.v[b][j].tok>> :
                 j \in {jj \in DOMAIN r.k[b] : r.mask[b][i][jj]}}]]]

\* the layer loop of forward: `obj` is the cache object handed to forward, whose k
\* and v lists the loop assigns into (cache.k[idx] = k); a layer that raises ends it;
\* attn is the attention view of the last layer, which the logits are projected from
RECURSIVE ForwardLoop(_, _, _, _, _, _, _, _, _)
ForwardLoop(idx, x, segment_ids, sin, c, obj, hasCache, call, attn) ==
  IF idx = c.num_layers
  THEN [raised |-> FALSE, passed |-> obj, attn |-> attn]
  ELSE Only({
         IF r.raised
         THEN [raised |-> TRUE, passed |-> obj, attn |-> attn]
         ELSE Only({
                ForwardLoop(idx + 1, x, segment_ids, sin, c, stored[1], hasCache, call,
                            stored[2]) :
                stored \in {<<IF hasCache
                              THEN [obj EXCEPT !.k[idx] = r.k, !.v[idx] = r.v]
                              ELSE obj,
                              AttnView(x, sin, r)>>}}) :
         r \in {forward_layer(x, segment_ids, sin, idx, c, obj, hasCache, call)}})

\* a variant that counts every position of the chunk, padding included
AdvanceLengthsAllPositions(lengths, segment_ids) ==
  [b \in DOMAIN lengths |-> lengths[b] + Size(segment_ids[b])]

\* cache.lengths + jnp.sum(segment_ids != 0, axis=-1)
AdvanceLengths(lengths, segment_ids) ==
  [b \in DOMAIN lengths |-> lengths[b] + incremental_positions(segment_ids[b])]

\* the rotary rows of the chunk: slices_at(sin, start_indices, seq_len)
RotaryRows(c, start_indices, seq_len) ==
  slices_at(generate_fixed_pos_embedding(c.max_seq_len), start_indices, seq_len)

\* forward with a cache: ok is FALSE when the call raises (a chunk longer than the
\* rotary table, a chunk whose batch is not the cache's under vmap, or the kernel path);
\* cache is the returned cache; passed is the cache object handed in, as the caller
\* sees it after an eager call; logits names what the logits are computed from
forward(x, segment_ids, c, kv_cache, call) ==
  LET seq_len == Size(x[0])
  IN IF seq_len > c.max_seq_len \/ Size(x) # Size(kv_cache.lengths)
     THEN [ok |-> FALSE, cache |-> kv_cache, passed |-> kv_cache, logits |-> <<>>]
     ELSE Only({
            IF loop.raised
            THEN [ok |-> FALSE, cache |-> kv_cache, passed |-> loop.passed,
                  logits |-> <<>>]
            ELSE [ok |-> TRUE,
                  cache |-> [loop.passed EXCEPT
                               !.lengths = AdvanceLengths(kv_cache.lengths, segment_ids)],
                  passed |-> loop.passed,
                  logits |-> loop.attn] :
            loop \in {Only({
              ForwardLoop(0, x, segment_ids, sin, c, kv_cache, TRUE, call, <<>>) :
              sin \in {RotaryRows(c, kv_cache.lengths, seq_len)}})}})

\* forward without a cache (the rotary rows start at 0 in every row)
forward_nocache(x, segment_ids, c) ==
  LET seq_len == Size(x[0])
      zeros == [b \in DOMAIN x |-> 0]
  IN IF seq_len > c.max_seq_len
     THEN [ok |-> FALSE, logits |-> <<>>]
     ELSE Only({
            [ok |-> TRUE, logits |-> loop.attn] :
            loop \in {Only({
              ForwardLoop(0, x, segment_ids, sin, c, <<>>, FALSE, 0, <<>>) :
              sin \in {RotaryRows(c, zeros, seq_len)}})}})

(***************************************************************************)
(* Inference: prepare_chunk and sample_from_prompt.                        *)
(***************************************************************************)
\* math.ceil(math.log2(n)) for n >= 1: the least e with 2^e >= n
RECURSIVE CeilLog2From(_, _)
CeilLog2From(n, e) == IF 2 ^ e >= n THEN e ELSE CeilLog2From(n, e + 1)

CeilLog2(n) == CeilLog2From(n, 0)

\* pad_to = 2 ** math.ceil(math.log2(len(tokens)))
PadTo(n) == 2 ^ CeilLog2(n)

\* prepare_chunk: [length] -> [1, pad_to] tokens padded on the right with 0, and the
\* segment ids jnp.where(chunk != pad_id, 1, 0)
prepare_chunk(chunk, pad_to, pad_id) ==
  LET padded == [i \in 0..(pad_to - 1) |-> IF i < Size(chunk) THEN chunk[i] ELSE 0]
  IN [chunk |-> [b \in {0} |-> padded],
      segment_ids |-> [b \in {0} |-> [i \in 0..(pad_to - 1) |->
                         IF padded[i] # pad_id THEN 1 ELSE 0]]]

\* the decode loop of sample_from_prompt from step s on: gen[s] is the token
\* sample_next_token returns at step s; one forward call of a chunk of length 1 each
RECURSIVE DecodeSteps(_, _, _, _, _, _)
DecodeSteps(s, gen, c, kv_cache, call, prev) ==
  IF s = Size(gen)
  THEN [cache |-> kv_cache, x |-> prev.x, seg |-> prev.seg, pre |-> prev.pre]
  ELSE Only({
         Only({
           DecodeSteps(s + 1, gen, c, next, call + 1,
                       [x |-> p.chunk, seg |-> p.segment_ids, pre |-> kv_cache]) :
           next \in {forward(p.chunk, p.segment_ids, c, kv_cache, call).cache}}) :
         p \in {prepare_chunk([i \in {0} |-> gen[s]], 1, 0)}})

\* sample_from_prompt: tokens is the prompt, gen the tokens the sampler picks
sample_from_prompt(tokens, c, kv_cache, batch_idx, gen, call) ==
  Only({
    Only({
      Only({
        IF ~r.ok
        THEN [ok |-> FALSE, cache |-> kv_cache, x |-> p.chunk, seg |-> p.segment_ids,
              pre |-> reset, nfwd |-> 1, out |-> <<>>, len0 |-> 0,
              pad_to |-> Size(p.chunk[0])]
        ELSE Only({
               [ok |-> TRUE, cache |-> d.cache, x |-> d.x, seg |-> d.seg, pre |-> d.pre,
                nfwd |-> 1 + Size(gen), out |-> gen,
                len0 |-> r.cache.lengths[batch_idx], pad_to |-> Size(p.chunk[0])] :
               d \in {DecodeSteps(0, gen, c, r.cache, call + 1,
                                  [x |-> p.chunk, seg |-> p.segment_ids, pre |-> reset])}}) :
        r \in {forward(p.chunk, p.segment_ids, c, reset, call)}}) :
      reset \in {[kv_cache EXCEPT !.lengths[batch_idx] = 0]}}) :
    p \in {prepare_chunk(tokens, PadTo(Size(tokens)), 0)}})

(***************************************************************************)
(* The program: a cache made by KVCache.init and threaded through calls.   *)
(***************************************************************************)
NoChunk(c) == [b \in Rows(c) |-> <<>>]

\* the token chunks [B, T] a caller feeds: row b holds the tokens t0+b, t0+b+1, ...
Chunks(c, T) ==
  {[b \in Rows(c) |-> [i \in 0..(T - 1) |-> (t0 + b + i) % VocabSize]] : t0 \in Vocab}

Init ==
  /\ cfg \in {c \in Config : c.causal}
  /\ cache = KVCacheInit(cfg)
  /\ passed = KVCacheInit(cfg)
  /\ last = [op |-> "init", ok |-> TRUE, x |-> NoChunk(cfg),
             seg |-> NoChunk(cfg), pre |-> KVCacheInit(cfg),
             n |-> 0, pad_to |-> 0, nfwd |-> 0, out |-> <<>>, len0 |-> 0]
  /\ calls = 0
  /\ inp = <<>>
  /\ outp = <<>>

\* one eager forward call with the cache (the loop assigns into the cache object
\* handed in); the caller keeps the returned cache
Forward ==
  /\ calls < MaxCalls
  /\ \E T \in 1..MaxChunk :
       \E x \in Chunks(cfg, T) :
         \E seg \in [Rows(cfg) -> [0..(T - 1) -> SegIds]] :
           \E r \in {forward(x, seg, cfg, cache, calls)} :
              /\ cache' = r.cache
              /\ passed' = r.passed
              /\ last' = [op |-> "forward", ok |-> r.ok, x |-> x,
                          seg |-> seg, pre |-> cache,
                          n |-> 0, pad_to |-> 0, nfwd |-> 1, out |-> <<>>, len0 |-> 0]
  /\ calls' = calls + 1
  /\ UNCHANGED <<cfg, inp, outp>>

\* one sample_from_prompt call (its forward calls are jitted, so the cache object
\* handed to them stays as it was); the caller keeps the returned cache, and inp
\* keeps the arguments of the call
SampleFromPrompt ==
  /\ \E n \in 1..cfg.max_seq_len :
       \E num_steps \in 0..MaxSteps :
         /\ calls + 1 + num_steps <= MaxCalls
         /\ \E tokens \in [0..(n - 1) -> Vocab] :
              \E gen \in [0..(num_steps - 1) -> Vocab] :
                \E batch_idx \in Rows(cfg) :
                  \E r \in {sample_from_prompt(tokens, cfg, cache, batch_idx, gen, calls)} :
                     /\ cache' = r.cache
                     /\ passed' = r.pre
                     /\ last' = [op |-> "sample", ok |-> r.ok, x |-> r.x, seg |-> r.seg,
                                 pre |-> r.pre, n |-> n, pad_to |-> r.pad_to,
                                 nfwd |-> r.nfwd, out |-> r.out, len0 |-> r.len0]
                     /\ calls' = calls + r.nfwd
                     /\ inp' = [tokens |-> tokens, num_steps |-> num_steps,
                                batch_idx |-> batch_idx]
  /\ UNCHANGED <<cfg, outp>>

Next == Forward \/ SampleFromPrompt

Spec == Init /\ [][Next]_vars

(***************************************************************************)
(* Properties of the cache under Spec.                                     *)
(***************************************************************************)
\* a forward call with the cache has returned; last holds the call's chunk and the
\* cache it was given (within sample_from_prompt: its last forward call)
Returned == last.op # "init" /\ last.ok

ChunkLen == Size(last.x[0])

NonPadding(b) == Cardinality({i \in 0..(ChunkLen - 1) : last.seg[b][i] # 0})

AllPadding(b) == \A i \in 0..(ChunkLen - 1) : last.seg[b][i] = 0

\* C1: every forward call with a cache returns lengths[b] advanced by exactly the
\* number of non-zero segment ids of row b in the call, once per call whatever the
\* number of layers; so lengths never decreases across a call.
C1_LengthsAdvance ==
  Returned =>
    \A b \in Rows(cfg) :
      /\ cache.lengths[b] = last.pre.lengths[b] + NonPadding(b)
      /\ cache.lengths[b] >= last.pre.lengths[b]

\* a call of two layers whose row mixes padding and non-padding positions has returned
C1_Witness ==
  /\ Returned
  /\ last.op = "forward"
  /\ cfg.num_layers = 2
  /\ \E b \in Rows(cfg) :
       /\ NonPadding(b) = 1
       /\ ChunkLen = 2
       /\ cache.lengths[b] = last.pre.lengths[b] + 1
       /\ last.pre.lengths[b] > 0

\* C2: in every state reached from KVCache.init by forward and sample_from_prompt
\* calls, lengths[b] <= max_seq_len for every row b.
C2_LengthsBounded ==
  \A b \in Rows(cfg) : cache.lengths[b] <= cfg.max_seq_len

C6_PaddingRowUntouched ==
  Returned =>
    \A b \in Rows(cfg) :
      (AllPadding(b) /\ last.pre.lengths[b] <= cfg.max_seq_len) =>
        /\ cache.lengths[b] = last.pre.lengths[b]
        /\ \A l \in Layers(cfg) : \A t \in Times(cfg) :
             t < last.pre.lengths[b] =>
               /\ cache.k[l][b][t] = last.pre.k[l][b][t]
               /\ cache.v[l][b][t] = last.pre.v[l][b][t]

\* C8: sample_from_prompt pads a prompt of n <= max_seq_len tokens to the least power
\* of two >= n, and that never exceeds max_seq_len.
C8_PadToFits ==
  last.op = "sample" =>
    /\ last.pad_to >= last.n
    /\ \E e \in 0..last.n : last.pad_to = 2 ^ e
    /\ \A e \in 0..last.n : 2 ^ e >= last.n => last.pad_to <= 2 ^ e
    /\ last.pad_to <= cfg.max_seq_len

\* C9: in a forward call with lengths[b] + (non-padding tokens of row b) <=
\* max_seq_len, every layer holds the k/v of chunk index i at time index
\* lengths[b] + i (those below the advanced length, which the mask keeps), and the
\* entries at time indices < lengths[b] are as before.
C9_StoredAtOwnLength ==
  Returned =>
    \A b \in Rows(cfg) :
      last.pre.lengths[b] + NonPadding(b) <= cfg.max_seq_len =>
        \A l \in Layers(cfg) :
          /\ \A i \in 0..(ChunkLen - 1) :
               i < NonPadding(b) =>
                 /\ cache.k[l][b][last.pre.lengths[b] + i].call = calls - 1
                 /\ cache.k[l][b][last.pre.lengths[b] + i].idx = i
                 /\ cache.k[l][b][last.pre.lengths[b] + i].tok = last.x[b][i]
                 /\ cache.v[l][b][last.pre.lengths[b] + i].call = calls - 1
                 /\ cache.v[l][b][last.pre.lengths[b] + i].idx = i
                 /\ cache.v[l][b][last.pre.lengths[b] + i].tok = last.x[b][i]
          /\ \A t \in Times(cfg) :
               t < last.pre.lengths[b] =>
                 /\ cache.k[l][b][t] = last.pre.k[l][b][t]
                 /\ cache.v[l][b][t] = last.pre.v[l][b][t]

\* C10: after a forward call the key-segment mask of row b (time index < advanced
\* length) marks a time index iff it holds the k/v of a non-padding token, for every
\* placement of the zero segment ids in the chunk.
C10_MaskMarksValid ==
  Returned =>
    \A b \in Rows(cfg) : \A l \in Layers(cfg) : \A t \in Times(cfg) :
      (t < cache.lengths[b]) <=>
        (cache.k[l][b][t].valid /\ cache.v[l][b][t].valid)

\* C11: from KVCache.init on, after every forward call with a cache the returned
\* cache holds, in every layer and every row b, zero key and value entries at every
\* time index >= lengths[b] (the advanced length).
C11_ZeroBeyondLengths ==
  \A l \in Layers(cfg) : \A b \in Rows(cfg) : \A t \in Times(cfg) :
    t >= cache.lengths[b] =>
      /\ cache.k[l][b][t] = ZeroKV
      /\ cache.v[l][b][t] = ZeroKV

\* a forward call wrote a chunk of two positions into a row and counted one of them:
\* the entry below the advanced length is the call's, the one the call wrote at the
\* advanced length is zero again
C11_Witness ==
  /\ Returned
  /\ last.op = "forward"
  /\ \E b \in Rows(cfg) :
       /\ ChunkLen = 2
       /\ NonPadding(b) = 1
       /\ last.pre.lengths[b] = 1
       /\ cache.lengths[b] = 2
       /\ cache.lengths[b] < cfg.max_seq_len
       /\ \A l \in Layers(cfg) :
            /\ cache.k[l][b][1].call = calls - 1
            /\ cache.k[l][b][2] = ZeroKV
            /\ cache.v[l][b][2] = ZeroKV

\* C12: in forward the rotary row applied to the token at chunk index i of row b is
\* the table row lengths[b] + i when a cache is given and the row i when none is, for
\* every chunk length T <= max_seq_len and every row with lengths[b] + (non-padding
\* tokens of the row) <= max_seq_len.  With a cache the row is read off the keys the
\* call stored (a key is rotated by the row of its token).
C12_RotaryRowAtOwnLength ==
  (last.op # "init" /\ ChunkLen <= cfg.max_seq_len) =>
    /\ \A b \in Rows(cfg) : \A i \in 0..(ChunkLen - 1) :
         RotaryRows(cfg, [r \in Rows(cfg) |-> 0], ChunkLen)[b][i] = i
    /\ last.ok =>
         \A b \in Rows(cfg) :
           last.pre.lengths[b] + NonPadding(b) <= cfg.max_seq_len =>
             \A l \in Layers(cfg) : \A t \in Times(cfg) :
               cache.k[l][b][t].call = calls - 1 =>
                 cache.k[l][b][t].rot = last.pre.lengths[b] + cache.k[l][b][t].idx

\* C13: forward with a cache returns the update as a new cache and does not change
\* the cache handed in: after the call the caller's original cache still has its
\* previous per-layer k and v and its previous lengths (never the updated k/v with
\* the old lengths).
C13_PassedCacheUnchanged ==
  last.op # "init" =>
    /\ passed.lengths = last.pre.lengths
    /\ passed.k = last.pre.k
    /\ passed.v = last.pre.v

\* C14: a sample_from_prompt call that returns, with a prompt of n tokens (any ids
\* of the vocabulary, 0 included) and num_steps steps, has made exactly 1 + num_steps
\* forward calls and returns num_steps tokens, and it counted every prompt token and
\* every generated token as non-padding: the target row's length is n after the
\* prompt call and n + num_steps at the return.
C14_SampleCountsEveryToken ==
  (last.op = "sample" /\ last.ok) =>
    /\ last.nfwd = 1 + inp.num_steps
    /\ Size(last.out) = inp.num_steps
    /\ last.len0 = Size(inp.tokens)
    /\ cache.lengths[inp.batch_idx] = Size(inp.tokens) + inp.num_steps

(***************************************************************************)
(* make_attention_mask on its own: SpecMask draws the arguments and        *)
(* applies the function.                                                   *)
(***************************************************************************)
MaskSegIds == {0, 1, 2}

MaskInputs ==
  UNION {
    [q_len : {q}, k_len : {k},
     q_segment_ids : [0..(B - 1) -> [0..(q - 1) -> MaskSegIds]],
     k_segment_ids : [0..(B - 1) -> [0..(k - 1) -> MaskSegIds]],
     q_offset : [0..(B - 1) -> 0..1],
     causal : BOOLEAN] :
    q \in 1..MaxMaskLen, k \in 1..MaxMaskLen, B \in 1..MaxBatch}

InitMask ==
  /\ cfg = <<>>
  /\ cache = <<>>
  /\ passed = <<>>
  /\ last = <<>>
  /\ calls = 0
  /\ inp \in MaskInputs
  /\ outp = <<>>

ApplyMask ==
  /\ calls = 0
  /\ outp' = make_attention_mask(inp.q_len, inp.k_len, inp.q_segment_ids,
                                 inp.k_segment_ids, inp.q_offset, inp.causal)
  /\ calls' = 1
  /\ UNCHANGED <<cfg, cache, passed, last, inp>>

SpecMask == InitMask /\ [][ApplyMask]_vars

MaskRows == DOMAIN inp.q_segment_ids

\* C5 as stated: query i of row b may attend to key j only if both carry the same
\* non-zero segment id and, when causal, q_offset[b] + i >= j.
C5_SameNonPaddingSegment ==
  calls = 1 =>
    \A b \in MaskRows : \A i \in 0..(inp.q_len - 1) : \A j \in 0..(inp.k_len - 1) :
      outp[b][i][j] =>
        /\ inp.q_segment_ids[b][i] = inp.k_segment_ids[b][j]
        /\ inp.q_segment_ids[b][i] # 0
        /\ inp.causal => inp.q_offset[b] + i >= j

\* C5 amended: query i of row b may attend to key j only if both carry the same
\* segment id (0 included) and, when causal, q_offset[b] + i >= j; a position with
\* segment id 0 neither attends to nor is attended by a position with another id.
C5_SameSegment ==
  calls = 1 =>
    \A b \in MaskRows : \A i \in 0..(inp.q_len - 1) : \A j \in 0..(inp.k_len - 1) :
      /\ outp[b][i][j] =>
           /\ inp.q_segment_ids[b][i] = inp.k_segment_ids[b][j]
           /\ inp.causal => inp.q_offset[b] + i >= j
      /\ (inp.q_segment_ids[b][i] = 0) # (inp.k_segment_ids[b][j] = 0) => ~outp[b][i][j]

\* a causal mask with an offset in which a padding query attends to a padding key and
\* a non-padding query to a key of its segment
C5_Witness ==
  /\ calls = 1
  /\ inp.causal
  /\ \E b \in MaskRows :
       /\ inp.q_offset[b] = 1
       /\ \E i \in 0..(inp.q_len - 1) : \E j \in 0..(inp.k_len - 1) :
            /\ inp.q_segment_ids[b][i] = 0
            /\ outp[b][i][j]
       /\ \E i \in 0..(inp.q_len - 1) : \E j \in 0..(inp.k_len - 1) :
            /\ inp.q_segment_ids[b][i] = 2
            /\ j = i + 1
            /\ outp[b][i][j]

(***************************************************************************)
(* get_lr_with_cosine_decay_and_warmup.  Rates are integers: max_lr and    *)
(* min_lr in units of 1e-6, results in units of 1e-6 / LRUnit.  The cosine *)
(* is evaluated in fixed point (FP units per 1), by the reduction of the   *)
(* angle to [0, pi/2] and a Taylor polynomial there.                       *)
(***************************************************************************)
LRUnit == 1000
FP == 10000
PiFP == 31416

\* cos(x) for x = xfp / FP in [0, pi/2], in units of 1 / FP: the Taylor polynomial
\* up to x^10 in Horner form
CosTaylor(xfp) ==
  LET x2 == (xfp * xfp) \div FP
      t5 == FP - (x2 \div 90)
      t4 == FP - ((x2 * t5) \div (56 * FP))
      t3 == FP - ((x2 * t4) \div (30 * FP))
      t2 == FP - ((x2 * t3) \div (12 * FP))
  IN FP - ((x2 * t2) \div (2 * FP))

\* jnp.cos(jnp.pi * num / den) for 0 <= num <= den, rounded to units of 1 / LRUnit
CosPi(num, den) ==
  LET half == 2 * num = den
      lower == 2 * num < den
      a == IF lower THEN num ELSE den - num
      c == CosTaylor((PiFP * a) \div den)
      r == (c * LRUnit + (FP \div 2)) \div FP
  IN IF half THEN 0 ELSE IF lower THEN r ELSE 0 - r

\* a variant whose progress is measured against total_steps
get_lr_progress_over_total(step, total_steps, max_lr, min_lr, warmup_steps) ==
  IF step < warmup_steps
  THEN (max_lr * LRUnit * step) \div warmup_steps
  ELSE min_lr * LRUnit
         + ((max_lr - min_lr) * (LRUnit + CosPi(step - warmup_steps, total_steps))) \div 2

\* get_lr_with_cosine_decay_and_warmup: jax.lax.cond(step < warmup_steps, warmup,
\* cosine_decay, step)
get_lr_with_cosine_decay_and_warmup(step, total_steps, max_lr, min_lr, warmup_steps) ==
  IF step < warmup_steps
  THEN (max_lr * LRUnit * step) \div warmup_steps
  ELSE min_lr * LRUnit
         + ((max_lr - min_lr) * (LRUnit + CosPi(step - warmup_steps,
                                                 total_steps - warmup_steps))) \div 2

\* learning rates in units of 1e-6: Config's defaults max_lr = 3e-4 and min_lr = 1e-5
LRValues == {0, 10, 300}

LRInputs ==
  {i \in [total_steps : 2..MaxTotalSteps, warmup_steps : 1..MaxTotalSteps,
          max_lr : LRValues, min_lr : LRValues] :
     i.warmup_steps < i.total_steps /\ i.min_lr <= i.max_lr}

InitLR ==
  /\ cfg = <<>>
  /\ cache = <<>>
  /\ passed = <<>>
  /\ last = <<>>
  /\ calls = 0
  /\ inp \in LRInputs
  /\ outp = <<>>

\* the training loop asks for the rate of step 0, 1, ..., total_steps in turn; outp
\* is the sequence of the rates returned so far
LRStep ==
  /\ calls <= inp.total_steps
  /\ outp' = Append(outp, get_lr_with_cosine_decay_and_warmup(
                            calls, inp.total_steps, inp.max_lr, inp.min_lr,
                            inp.warmup_steps))
  /\ calls' = calls + 1
  /\ UNCHANGED <<cfg, cache, passed, last, inp>>

SpecLR == InitLR /\ [][LRStep]_vars

\* the rate returned for step s (outp is 1-based)
RateAt(s) == outp[s + 1]

\* C7: the rate is 0 at step 0, max_lr at warmup_steps and min_lr at total_steps; over
\* the steps 0..total_steps it does not decrease up to warmup_steps and does not
\* increase after it.
C7_Schedule ==
  /\ calls > 0 => RateAt(0) = 0
  /\ calls > inp.warmup_steps => RateAt(inp.warmup_steps) = inp.max_lr * LRUnit
  /\ calls > inp.total_steps => RateAt(inp.total_steps) = inp.min_lr * LRUnit
  /\ \A s \in 0..(calls - 2) :
       /\ s + 1 <= inp.warmup_steps => RateAt(s) <= RateAt(s + 1)
       /\ s >= inp.warmup_steps => RateAt(s) >= RateAt(s + 1)

\* a whole schedule with a warmup of several steps and a decay of several steps has
\* been computed, and the rate moved strictly up and then strictly down
C7_Witness ==
  /\ calls = inp.total_steps + 1
  /\ inp.warmup_steps = 3
  /\ inp.total_steps = 8
  /\ inp.min_lr = 10
  /\ inp.max_lr = 300
  /\ RateAt(1) < RateAt(2)
  /\ RateAt(4) > RateAt(5)
  /\ RateAt(7) > RateAt(8)

(***************************************************************************)
(* Incremental decoding against one cache-less call.  SpecDecode draws a   *)
(* sequence of L + steps tokens per row, feeds the first L through forward *)
(* with a fresh cache and then one token per call; outp are the logits of  *)
(* the last call.                                                          *)
(***************************************************************************)
Scripts(c) ==
  UNION {[L : {L}, steps : {n - L}, tokens : Chunks(c, n)] :
           <<L, n>> \in {ln \in (1..c.max_seq_len) \X (1..c.max_seq_len) : ln[1] <= ln[2]}}

InitDecode ==
  /\ cfg \in {c \in Config : ~c.use_attn_kernel}
  /\ cache = KVCacheInit(cfg)
  /\ passed = <<>>
  /\ last = <<>>
  /\ calls = 0
  /\ inp \in Scripts(cfg)
  /\ outp = <<>>

\* tokens from..(from + len - 1) of every row, with segment id 1 throughout
ScriptChunk(from, len) ==
  [b \in Rows(cfg) |-> [i \in 0..(len - 1) |-> inp.tokens[b][from + i]]]

Ones(len) == [b \in Rows(cfg) |-> [i \in 0..(len - 1) |-> 1]]

\* the prompt: one forward call of L tokens with the fresh cache
Prefill ==
  /\ calls = 0
  /\ \E r \in {forward(ScriptChunk(0, inp.L), Ones(inp.L), cfg, cache, calls)} :
        /\ cache' = r.cache
        /\ outp' = r.logits
  /\ calls' = 1
  /\ UNCHANGED <<cfg, passed, last, inp>>

\* one decode step: one forward call of the next token
DecodeStep ==
  /\ calls >= 1
  /\ calls <= inp.steps
  /\ \E r \in {forward(ScriptChunk(inp.L + calls - 1, 1), Ones(1), cfg, cache, calls)} :
        /\ cache' = r.cache
        /\ outp' = r.logits
  /\ calls' = calls + 1
  /\ UNCHANGED <<cfg, passed, last, inp>>

NextDecode == Prefill \/ DecodeStep

SpecDecode == InitDecode /\ [][NextDecode]_vars

\* the number of tokens fed so far, and the absolute position of the last call's
\* chunk index 0
Fed == IF calls = 0 THEN 0 ELSE inp.L + calls - 1

ChunkStart == IF calls = 1 THEN 0 ELSE Fed - 1

\* the logits of one cache-less forward call over the first n tokens of the sequence
WholeLogits(n) == forward_nocache(ScriptChunk(0, n), Ones(n), cfg).logits

\* the chunk indices of the last call that are generated positions: the last prompt
\* position, whose logits pick the first generated token, and every decoded token
Generated(b) == {i \in DOMAIN outp[b] : ChunkStart + i >= inp.L - 1}

\* the logits of the last call agree, at each generated position, with those of the
\* cache-less call over the first n tokens: same token, same rotary row, the same
\* keys and values at the same positions
AgreesWith(n) ==
  \A b \in Rows(cfg) : \A i \in Generated(b) :
    outp[b][i] = WholeLogits(n)[b][ChunkStart + i]

\* the query at absolute position p uses rotary row p and attends to the keys at
\* exactly the positions 0..p, which hold the keys and values of the sequence's tokens
AttendsPrefix ==
  \A b \in Rows(cfg) : \A i \in Generated(b) :
    /\ outp[b][i].rot = ChunkStart + i
    /\ {k[1] : k \in outp[b][i].keys} = 0..(ChunkStart + i)
    /\ \A k \in outp[b][i].keys :
         /\ k[2] = inp.tokens[b][k[1]]
         /\ k[3] = k[1]
         /\ k[4] = inp.tokens[b][k[1]]

\* C3 as stated: after the prompt call and after every decode step, the call's logits
\* are those of one cache-less call over the whole sequence of L + steps tokens.
C3_DecodeMatchesWhole ==
  calls >= 1 => AgreesWith(inp.L + inp.steps) /\ AttendsPrefix

\* C3 amended: the same, for configurations with causal set.
C3_CausalDecodeMatchesWhole ==
  (calls >= 1 /\ cfg.causal) => AgreesWith(inp.L + inp.steps) /\ AttendsPrefix

\* two decode steps after a prompt of two tokens, in two layers, and a step to go
C3_Witness ==
  /\ cfg.causal
  /\ cfg.num_layers = 2
  /\ inp.L = 2
  /\ inp.steps = 2
  /\ calls = 2
  /\ cache.lengths[0] = 3
  /\ AgreesWith(4)

====
